---- MODULE Spec2Model ----
(***************************************************************************)
(* transforma: the workflow execution engine.                              *)
(*                                                                         *)
(* Three variants of the runner live in the repository:                    *)
(*   "inproc"  src/src/commands/run.ts            (require() in process)   *)
(*   "node"    src/unnamed/part_004 lines 1-619   (node child process)     *)
(*   "bun"     src/unnamed/part_004 lines 621-1098 (bun child process)     *)
(*                                                                         *)
(* Spec         one run of runWorkflow over an input directory.            *)
(* SandboxSpec  two concurrent calls of executeTransformScript.            *)
(* RunBoxSpec   the calls of executeTransformScript one run makes in turn. *)
(* FnSpec       one built-in function, parser or path resolution applied   *)
(*              on its own.                                                *)
(*                                                                         *)
(* Texts (file bytes, stdout, stderr) are sequences of one-character       *)
(* tokens; the JSON literal null and the harness tag LOG: are one token.   *)
(***************************************************************************)
EXTENDS Integers, Sequences, FiniteSets, TLC

\* ------------------------------------------------------------------ bounds
MaxSteps == 2
MaxFiles == 2
MaxClock == 2
MaxElems == 2
MaxSegments == 2
MaxLines == 3
MaxApply == 2

\* -------------------------------------------------------- content values
\* A content value: t the JavaScript type, s the characters of a string or
\* the digits of a number, c the elements of an array or the property
\* values of an object, k the property keys of an object (each key a
\* sequence of characters).
Str(s) == [t |-> "str", s |-> s, c |-> <<>>, k |-> <<>>]
Num(d) == [t |-> "num", s |-> d, c |-> <<>>, k |-> <<>>]
Null == [t |-> "null", s |-> <<>>, c |-> <<>>, k |-> <<>>]
Undefined == [t |-> "undefined", s |-> <<>>, c |-> <<>>, k |-> <<>>]
Arr(items) == [t |-> "arr", s |-> <<>>, c |-> items, k |-> <<>>]
Obj(keys, vals) == [t |-> "obj", s |-> <<>>, c |-> vals, k |-> keys]

\* typeof v === "object" (null included, as in JavaScript)
TypeofObject(v) == v.t \in {"arr", "obj", "null"}

\* results of operations that may throw
Ok(v) == [ok |-> TRUE, val |-> v, err |-> "none"]
Err(e) == [ok |-> FALSE, val |-> Null, err |-> e]

\* ------------------------------------------------------------------ JSON
Ws == {" ", "\n"}
Digits == {"1", "2"}

Esc(ch) == CASE ch = "\n" -> "\\n" [] ch = "\"" -> "\\\"" [] OTHER -> ch
Unesc(ch) == CASE ch = "\\n" -> "\n" [] ch = "\\\"" -> "\"" [] OTHER -> ch

RECURSIVE JoinTexts(_, _)
JoinTexts(texts, sep) ==
  IF texts = <<>> THEN <<>>
  ELSE IF Len(texts) = 1 THEN texts[1]
  ELSE texts[1] \o sep \o JoinTexts(Tail(texts), sep)

QuoteText(s) == <<"\"">> \o [i \in 1..Len(s) |-> Esc(s[i])] \o <<"\"">>

\* JSON.stringify(v, null, indent): indent = 0 is the compact form; with
\* indent > 0 every element of a non-empty array or object starts on a new
\* line (the run of indent spaces is the one token " ").
RECURSIVE JSONstringify(_, _)
JSONstringify(v, indent) ==
  LET nl == IF indent > 0 THEN <<"\n", " ">> ELSE <<>>
      nlEnd == IF indent > 0 THEN <<"\n">> ELSE <<>>
      colon == IF indent > 0 THEN <<":", " ">> ELSE <<":">>
  IN CASE v.t = "str" -> QuoteText(v.s)
       [] v.t = "num" -> v.s
       [] v.t = "null" -> <<"null">>
       [] v.t = "arr" ->
            IF v.c = <<>> THEN <<"[", "]">>
            ELSE <<"[">> \o nl
                 \o JoinTexts([i \in 1..Len(v.c) |->
                        \* undefined array elements serialise as null
                        IF v.c[i].t = "undefined" THEN <<"null">>
                        ELSE JSONstringify(v.c[i], indent)], <<",">> \o nl)
                 \o nlEnd \o <<"]">>
       [] v.t = "obj" ->
            IF v.c = <<>> THEN <<"{", "}">>
            ELSE <<"{">> \o nl
                 \o JoinTexts([i \in 1..Len(v.c) |->
                        QuoteText(v.k[i]) \o colon
                        \o JSONstringify(v.c[i], indent)], <<",">> \o nl)
                 \o nlEnd \o <<"}">>
       [] OTHER -> <<>>

RECURSIVE SkipWs(_, _)
SkipWs(txt, i) ==
  IF i <= Len(txt) /\ txt[i] \in Ws THEN SkipWs(txt, i + 1) ELSE i

PFail == [ok |-> FALSE, val |-> Null, next |-> 0]
POk(v, n) == [ok |-> TRUE, val |-> v, next |-> n]

RECURSIVE ParseStr(_, _, _)
ParseStr(txt, i, acc) ==
  IF i > Len(txt) \/ txt[i] = "\n" THEN PFail
  ELSE IF txt[i] = "\"" THEN POk(Str(acc), i + 1)
  ELSE ParseStr(txt, i + 1, Append(acc, Unesc(txt[i])))

RECURSIVE ParseNum(_, _, _)
ParseNum(txt, i, acc) ==
  IF i <= Len(txt) /\ txt[i] \in Digits
  THEN ParseNum(txt, i + 1, Append(acc, txt[i]))
  ELSE POk(Num(acc), i)

\* The order of an object's own keys: the keys that are array indices come
\* first, in ascending numeric order, then the other keys in the order they
\* were added. Whether key belongs in front of the key other that is
\* already there:
KeyBefore(key, other) ==
  /\ key # <<>>
  /\ \A j \in 1..Len(key) : key[j] \in Digits
  /\ \/ other = <<>>
     \/ \E j \in 1..Len(other) : other[j] \notin Digits
     \/ Len(key) < Len(other)
     \/ /\ Len(key) = Len(other)
        /\ \E j \in 1..Len(key) :
             /\ SubSeq(key, 1, j - 1) = SubSeq(other, 1, j - 1)
             /\ key[j] = "1" /\ other[j] = "2"

\* a new property put behind the first n of the object's properties
InsertProp(o, key, val, n) ==
  Obj(SubSeq(o.k, 1, n) \o <<key>> \o SubSeq(o.k, n + 1, Len(o.k)),
      SubSeq(o.c, 1, n) \o <<val>> \o SubSeq(o.c, n + 1, Len(o.c)))

\* o[key] = val: an object keeps one property per key, a repeated key
\* overwrites
PutProp(o, key, val) ==
  IF \E i \in 1..Len(o.k) : o.k[i] = key
  THEN Obj(o.k, [i \in 1..Len(o.c) |-> IF o.k[i] = key THEN val ELSE o.c[i]])
  ELSE InsertProp(o, key, val,
         Cardinality({ i \in 1..Len(o.k) : ~KeyBefore(key, o.k[i]) }))

Frame(v, key) == [v |-> v, key |-> key]

\* The value parser, as a pushdown automaton over the text. stack holds the
\* arrays and objects that are still open (with the key an object waits a
\* value for); mode is "value" (a value must start here), "key" (a property
\* key must start here) or "after" (cur has just been read).
RECURSIVE ParseVal(_, _, _, _, _)

\* a string or number has been scanned
AfterScalar(txt, stack, r) ==
  IF r.ok THEN ParseVal(txt, r.next, stack, "after", r.val) ELSE PFail

\* an opening bracket at j, the next token at n
OpenContainer(txt, j, n, stack, empty, closer, mode) ==
  IF n <= Len(txt) /\ txt[n] = closer
  THEN ParseVal(txt, n + 1, stack, "after", empty)
  ELSE ParseVal(txt, j + 1, Append(stack, Frame(empty, <<>>)), mode, Null)

\* a value must start at j
ParseValue(txt, j, stack) ==
  CASE txt[j] = "null" -> ParseVal(txt, j + 1, stack, "after", Null)
    [] txt[j] \in Digits -> AfterScalar(txt, stack, ParseNum(txt, j, <<>>))
    [] txt[j] = "\"" -> AfterScalar(txt, stack, ParseStr(txt, j + 1, <<>>))
    [] txt[j] = "[" ->
         OpenContainer(txt, j, SkipWs(txt, j + 1), stack, Arr(<<>>), "]", "value")
    [] txt[j] = "{" ->
         OpenContainer(txt, j, SkipWs(txt, j + 1), stack, Obj(<<>>, <<>>), "}", "key")
    [] OTHER -> PFail

\* a property key has been scanned for the object top, col is where its
\* colon must be
ParseColon(txt, top, rest, str, col) ==
  IF ~str.ok \/ col > Len(txt) THEN PFail
  ELSE IF txt[col] # ":" THEN PFail
  ELSE ParseVal(txt, col + 1, Append(rest, Frame(top.v, str.val.s)), "value", Null)

\* a property key must start at j
ParseKey(txt, j, top, rest, str) ==
  IF txt[j] # "\"" THEN PFail
  ELSE ParseColon(txt, top, rest, str, IF str.ok THEN SkipWs(txt, str.next) ELSE 0)

\* the open container top has grown by the value just read; at j a comma or
\* its closing bracket must follow
ParseAfter(txt, j, isArr, rest, grown) ==
  IF txt[j] = ","
  THEN ParseVal(txt, j + 1, Append(rest, Frame(grown, <<>>)),
                IF isArr THEN "value" ELSE "key", Null)
  ELSE IF txt[j] = (IF isArr THEN "]" ELSE "}")
  THEN ParseVal(txt, j + 1, rest, "after", grown)
  ELSE PFail

Grow(top, cur) ==
  IF top.v.t = "arr" THEN Arr(Append(top.v.c, cur))
  ELSE PutProp(top.v, top.key, cur)

ParseStep(txt, j, stack, mode, cur) ==
  IF j > Len(txt) THEN PFail
  ELSE IF mode = "value" THEN ParseValue(txt, j, stack)
  ELSE IF mode = "key"
  THEN ParseKey(txt, j, stack[Len(stack)], SubSeq(stack, 1, Len(stack) - 1),
                ParseStr(txt, j + 1, <<>>))
  ELSE ParseAfter(txt, j, stack[Len(stack)].v.t = "arr",
                  SubSeq(stack, 1, Len(stack) - 1), Grow(stack[Len(stack)], cur))

ParseVal(txt, i, stack, mode, cur) ==
  IF mode = "after" /\ stack = <<>> THEN POk(cur, i)
  ELSE ParseStep(txt, SkipWs(txt, i), stack, mode, cur)

\* the whole text must be one value
WholeText(txt, r) ==
  IF r.ok /\ SkipWs(txt, r.next) > Len(txt) THEN Ok(r.val)
  ELSE Err("SyntaxError")

\* JSON.parse(txt): exactly one JSON value, white space around it allowed
JSONparse(txt) == WholeText(txt, ParseVal(txt, 1, <<>>, "value", Null))

\* ----------------------------------------------------- built-in functions
\* a case swap in place of the upper-case mapping
UpperChar_Swap(ch) ==
  CASE ch = "a" -> "A" [] ch = "b" -> "B" [] ch = "A" -> "a" [] ch = "B" -> "b"
    [] OTHER -> ch

UpperChar(ch) == CASE ch = "a" -> "A" [] ch = "b" -> "B" [] OTHER -> ch
LowerChar(ch) == CASE ch = "A" -> "a" [] ch = "B" -> "b" [] OTHER -> ch

toUpperCase(s) == [i \in 1..Len(s) |-> UpperChar(s[i])]
toLowerCase(s) == [i \in 1..Len(s) |-> LowerChar(s[i])]

\* String(v) for the values the model passes to it
StringOf(v) ==
  CASE v.t = "str" -> v.s
    [] v.t = "num" -> v.s
    [] v.t = "null" -> <<"null">>
    [] v.t = "undefined" -> <<"undefined">>
    [] OTHER -> <<"[object]">>

RECURSIVE Concat(_)
Concat(texts) == IF texts = <<>> THEN <<>> ELSE texts[1] \o Concat(Tail(texts))

\* The key is put into the pattern as it is, so its characters are regular
\* expression syntax: the character . stands for any character but a line
\* break (the other special characters are not in the model's keys).
KeyAt(s, b, key) ==
  /\ b + Len(key) - 1 <= Len(s)
  /\ \A j \in 1..Len(key) :
       IF key[j] = "." THEN s[b + j - 1] # "\n" ELSE s[b + j - 1] = key[j]

\* key\s*\}\} matches from b on: the position of the last brace, 0 if none
CloseAt(s, b, key, f) ==
  IF KeyAt(s, b, key) /\ f + 1 <= Len(s) /\ s[f] = "}" /\ s[f + 1] = "}"
  THEN f + 1 ELSE 0

\* the first \s* is greedy: the longest run of white space after which the
\* rest of the pattern matches
RECURSIVE OpenAt(_, _, _, _)
OpenAt(s, lo, b, key) ==
  IF b < lo THEN 0
  ELSE IF CloseAt(s, b, key, SkipWs(s, b + Len(key))) > 0
  THEN CloseAt(s, b, key, SkipWs(s, b + Len(key)))
  ELSE OpenAt(s, lo, b - 1, key)

\* end position of a match of /\{\{\s*key\s*\}\}/ starting at i, 0 if none
MatchPlaceholder(s, i, key) ==
  IF i + 1 <= Len(s) /\ s[i] = "{" /\ s[i + 1] = "{"
  THEN OpenAt(s, i + 2, SkipWs(s, i + 2), key)
  ELSE 0

\* the replacement string of String.prototype.replace: $& stands for the
\* matched text (the one token "$&"; the other $ patterns are not in the
\* model's values)
Replacement(val, matched) ==
  Concat([j \in 1..Len(val) |-> IF val[j] = "$&" THEN matched ELSE <<val[j]>>])

\* the text from i on after the match that ends at m (0: no match at i)
RECURSIVE ReplacePlaceholder(_, _, _, _)
ReplaceAt(s, i, key, val, m) ==
  IF m > 0
  THEN Replacement(val, SubSeq(s, i, m)) \o ReplacePlaceholder(s, m + 1, key, val)
  ELSE <<s[i]>> \o ReplacePlaceholder(s, i + 1, key, val)

\* result.replace(placeholder, String(value)) with the g flag
ReplacePlaceholder(s, i, key, val) ==
  IF i > Len(s) THEN <<>>
  ELSE ReplaceAt(s, i, key, val, MatchPlaceholder(s, i, key))

\* Object.entries(options).forEach(...) from entry i on; options is an
\* object value
RECURSIVE TemplateFold(_, _, _)
TemplateFold(s, options, i) ==
  IF i > Len(options.k) THEN s
  ELSE TemplateFold(
         ReplacePlaceholder(s, 1, options.k[i], StringOf(options.c[i])),
         options, i + 1)

\* the string method the built-in's name selects
CaseOf(functionName, s) ==
  IF functionName = "toUpperCase" THEN toUpperCase(s) ELSE toLowerCase(s)

\* the built-in without its branch for arrays and objects
FoldCase_StringsOnly(content, functionName) ==
  IF content.t = "str" THEN Str(CaseOf(functionName, content.s)) ELSE content

FoldCase(content, functionName) ==
  IF content.t = "str" THEN Str(CaseOf(functionName, content.s))
  ELSE IF content.t = "arr"
  THEN Arr([i \in 1..Len(content.c) |->
         IF content.c[i].t = "str" THEN Str(CaseOf(functionName, content.c[i].s))
         ELSE content.c[i]])
  ELSE IF content.t = "obj"
  THEN Obj(content.k, [i \in 1..Len(content.c) |->
         IF content.c[i].t = "str" THEN Str(CaseOf(functionName, content.c[i].s))
         ELSE content.c[i]])
  ELSE content

applyBuiltInFunction(content, functionName, options) ==
  CASE functionName = "toUpperCase" -> Ok(FoldCase(content, functionName))
    [] functionName = "toLowerCase" -> Ok(FoldCase(content, functionName))
    [] functionName = "template" ->
         IF content.t = "str" THEN Ok(Str(TemplateFold(content.s, options, 1)))
         ELSE Ok(content)
    [] OTHER -> Err("Unknown built-in function")

\* ---------------------------------------------------------- content codec
RECURSIVE Split(_, _, _)
\* txt.split(sep), cur the piece being collected
Split(txt, sep, cur) ==
  IF txt = <<>> THEN <<cur>>
  ELSE IF Head(txt) = sep THEN <<cur>> \o Split(Tail(txt), sep, <<>>)
  ELSE Split(Tail(txt), sep, Append(cur, Head(txt)))

RECURSIVE TrimStart(_)
TrimStart(s) == IF s # <<>> /\ Head(s) \in Ws THEN TrimStart(Tail(s)) ELSE s
RECURSIVE TrimEnd(_)
TrimEnd(s) ==
  IF s # <<>> /\ s[Len(s)] \in Ws THEN TrimEnd(SubSeq(s, 1, Len(s) - 1)) ELSE s
Trim(s) == TrimEnd(TrimStart(s))

RECURSIVE CsvRow(_, _, _, _)
\* headers.forEach((header, index) => row[header] = values[index]?.trim() || "")
CsvRow(headers, values, index, row) ==
  IF index > Len(headers) THEN row
  ELSE CsvRow(headers, values, index + 1,
         PutProp(row, headers[index],
           Str(IF index <= Len(values) THEN Trim(values[index]) ELSE <<>>)))

\* the header names of the first line
CsvHeaders(hs) == [i \in 1..Len(hs) |-> Trim(hs[i])]

CsvRows(lines, headers, delimiter) ==
  Arr([i \in 1..(Len(lines) - 1) |->
        CsvRow(headers, Split(lines[i + 1], delimiter, <<>>), 1, Obj(<<>>, <<>>))])

CsvLines(lines, delimiter) ==
  IF lines = <<>> THEN Arr(<<>>)
  ELSE CsvRows(lines, CsvHeaders(Split(lines[1], delimiter, <<>>)), delimiter)

\* the filter without its trim: a line of white space is kept
IsLine_NonEmpty(l) == l # <<>>

\* lines.filter((line) => line.trim())
IsLine(l) == Trim(l) # <<>>

ParseCsv(txt, delimiter) ==
  CsvLines(SelectSeq(Split(txt, "\n", <<>>), IsLine), delimiter)

\* the catch of parseFileContent: run.ts and the node variant fall back to
\* the raw text, the bun variant rethrows
ParseFallback(variant, txt, r) ==
  IF r.ok THEN r
  ELSE IF variant = "bun" THEN Err("ParseError")
  ELSE Ok(Str(txt))

parseFileContent(variant, txt, fileExtension) ==
  CASE fileExtension = ".json" -> ParseFallback(variant, txt, JSONparse(txt))
    [] fileExtension = ".csv" -> Ok(ParseCsv(txt, ","))
    [] OTHER -> Ok(Str(txt))

\* the bytes writeOutputFile puts at the output path, or the error it throws
writeOutputFile(variant, content) ==
  IF variant = "bun"
  THEN IF content.t = "undefined" THEN Err("WriteFailure")
       ELSE Ok(JSONstringify(content, 2))
  ELSE IF TypeofObject(content) /\ content.t # "null"
       THEN Ok(JSONstringify(content, 2) \o <<"\n">>)
       ELSE Ok(StringOf(content))

\* ---------------------------------------------------- custom configuration
\* fileExtension.substring(1): the key an extension has in the registries of
\* wfconfig.js
ExtKey(ext) ==
  CASE ext = ".json" -> "json" [] ext = ".txt" -> "txt" [] ext = ".csv" -> "csv"
    [] OTHER -> ""

\* The value of wfconfig.js as runWorkflow holds it: for each key what the
\* registered parser or formatter does ("none" when nothing is registered,
\* "good" a function that returns, "bad" a function that throws), and
\* output.defaultFormat ("" when unset).
Config(jsonParser, jsonFormatter, txtFormatter, defaultFormat) ==
  [parsers |-> [k \in {"json", "txt", "csv", ""} |->
                  IF k = "json" THEN jsonParser ELSE "none"],
   formatters |-> [k \in {"json", "txt", "csv", ""} |->
                     CASE k = "json" -> jsonFormatter [] k = "txt" -> txtFormatter
                       [] OTHER -> "none"],
   defaultFormat |-> defaultFormat]

\* no wfconfig.js, or one that failed to load
NoConfig == Config("none", "none", "none", "")

ConfigPool ==
  { NoConfig,
    Config("good", "none", "none", ""), Config("bad", "none", "none", ""),
    Config("none", "good", "none", "json"), Config("none", "none", "good", "json"),
    Config("none", "bad", "none", "json") }

\* a registered parser called with the raw text: the good one returns the
\* text wrapped in an array, the bad one throws
CustomParse(kind, rawContent) ==
  IF kind = "good" THEN Ok(Arr(<<Str(rawContent)>>)) ELSE Err("CustomParserError")

\* a registered formatter called with the step result: the good one returns
\* the compact JSON text after a mark of its own, the bad one throws
CustomFormat(kind, result) ==
  IF kind = "good" THEN Ok(<<"f">> \o JSONstringify(result, 0))
  ELSE Err("CustomFormatterError")

\* try { custom } catch { default }: the custom function's result, or the
\* default one when the custom function threw
OrDefault(custom, default) == IF custom.ok THEN custom ELSE default

\* runWorkflowStep with its custom-parser branch removed
ParseInput_DefaultOnly(v, cfg, file) ==
  parseFileContent(v, file.text, file.name.ext)

\* the content runWorkflowStep parses from the input file: in run.ts and the
\* node variant a parser registered for the extension comes first, and the
\* default parser is the fallback when it throws; the bun variant has the
\* default parser only
ParseInput(v, cfg, file) ==
  IF v # "bun" /\ cfg.parsers[ExtKey(file.name.ext)] # "none"
  THEN OrDefault(CustomParse(cfg.parsers[ExtKey(file.name.ext)], file.text),
                 parseFileContent(v, file.text, file.name.ext))
  ELSE parseFileContent(v, file.text, file.name.ext)

\* the formatter runWorkflowStep (run.ts, node variant) or writeOutputFile
\* (bun variant) looks up for a file
Formatter(v, cfg, ext) ==
  IF v = "bun"
  THEN cfg.formatters[IF cfg.defaultFormat = "" THEN "json" ELSE cfg.defaultFormat]
  ELSE IF cfg.formatters[ExtKey(ext)] # "none" THEN cfg.formatters[ExtKey(ext)]
  ELSE cfg.formatters[cfg.defaultFormat]

\* ------------------------------------------------------ transform scripts
\* What a user script does when its entry point is called: the console
\* methods it calls (with the text it prints), the value it computes from
\* its content, and whether it returns that value or throws.
Call(method, text) == [method |-> method, text |-> text]
Script(calls, body, ends) == [calls |-> calls, body |-> body, ends |-> ends]

ScriptPaths ==
  {"wrap.js", "log.js", "info.js", "crash.js", "noisy.js", "void.js",
   "named.js", "config.js", "nested.js", "data.js"}
MissingScript == Script(<<>>, "missing", "throw")
ScriptAt(path) ==
  CASE path = "wrap.js" -> Script(<<>>, "wrap", "return")
    [] path \in {"named.js", "config.js", "nested.js", "data.js"} ->
         Script(<<>>, "identity", "return")
    [] path = "log.js" ->
         Script(<<Call("log", <<"m">>), Call("log", <<"1">>)>>, "identity", "return")
    [] path = "info.js" -> Script(<<Call("info", <<"m">>)>>, "identity", "return")
    [] path = "crash.js" -> Script(<<Call("log", <<"m">>)>>, "identity", "throw")
    [] path = "noisy.js" -> Script(<<Call("info", <<"1">>)>>, "identity", "throw")
    [] path = "void.js" -> Script(<<Call("warn", <<"m">>)>>, "void", "return")
    [] OTHER -> MissingScript

\* What the module at path exports, as import() shows it: its default export
\* and its export named step1, each "absent" (or falsy), a "function", an
\* "object" that is not callable, or an "objectWithStep1", an object that is
\* not callable and has a function as its property step1.
Exports(default, step1) == [default |-> default, step1 |-> step1]
ExportsOf(path) ==
  CASE path = "named.js" -> Exports("absent", "function")
    [] path = "config.js" -> Exports("object", "function")
    [] path = "nested.js" -> Exports("objectWithStep1", "absent")
    [] path = "data.js" -> Exports("object", "absent")
    [] OTHER -> Exports("function", "absent")

\* The function the harness calls: transformFn is the first truthy one of
\* default, step1 and the module namespace (which is never a function and
\* whose step1 is the export step1); it is called when it is a function,
\* else its property step1 when that is a function, else nothing is.
EntryPoint(exports) ==
  IF exports.default # "absent"
  THEN (CASE exports.default = "function" -> "default"
          [] exports.default = "objectWithStep1" -> "default.step1"
          [] OTHER -> "none")
  ELSE IF exports.step1 # "absent"
  THEN (IF exports.step1 = "function" THEN "step1" ELSE "none")
  ELSE "none"

\* the value the script's function computes
RunBody(body, content) ==
  CASE body = "wrap" -> Arr(<<content>>)
    [] body = "void" -> Undefined
    [] OTHER -> content

\* ---------------------------------------------------------------- harness
ErrLine == <<"e", "\n">>

\* the harness without its console.log replacement
ConsoleChannel_NoRedirect(method) ==
  CASE method \in {"log", "info", "debug"} -> "stdout"
    [] OTHER -> "stderr"

\* Where a console call of the user script ends up while the harness runs
\* it: the harness replaces console.log only; info and debug keep writing
\* to stdout, warn and error to stderr.
ConsoleChannel(method) ==
  CASE method = "log" -> "tagged"
    [] method \in {"info", "debug"} -> "stdout"
    [] OTHER -> "stderr"

RECURSIVE ConsoleStdout(_)
ConsoleStdout(calls) ==
  IF calls = <<>> THEN <<>>
  ELSE (IF ConsoleChannel(calls[1].method) = "stdout"
        THEN calls[1].text \o <<"\n">> ELSE <<>>)
       \o ConsoleStdout(Tail(calls))

\* the writes to stderr, one element per console.error call
RECURSIVE ConsoleStderr(_)
ConsoleStderr(calls) ==
  IF calls = <<>> THEN <<>>
  ELSE (CASE ConsoleChannel(calls[1].method) = "tagged" ->
               << <<"LOG:", " ">> \o calls[1].text \o <<"\n">> >>
          [] ConsoleChannel(calls[1].method) = "stderr" ->
               << calls[1].text \o <<"\n">> >>
          [] OTHER -> <<>>)
       \o ConsoleStderr(Tail(calls))

\* the end of run(): the result is written and the child exits 0, or the
\* catch prints the error and the child exits 1
\* (returned and ret record whether the script's function returned, and what)
HarnessEnd(script, result, out, errs, entry) ==
  IF script.ends = "throw" \/ result.t = "undefined"
  THEN [stdout |-> out, stderr |-> Append(errs, ErrLine), code |-> 1,
        returned |-> script.ends = "return", ret |-> result, entry |-> entry]
  ELSE [stdout |-> out \o JSONstringify(result, 0), stderr |-> errs, code |-> 0,
        returned |-> TRUE, ret |-> result, entry |-> entry]

\* the child that fails before it calls anything
FailedChild ==
  [stdout |-> <<>>, stderr |-> <<ErrLine>>, code |-> 1, returned |-> FALSE,
   ret |-> Null, entry |-> "none"]

\* One execution of the executor script on the module at scriptPath:
\* contentRead and optionsRead are the results of reading and parsing the
\* two payload files.
Harness(scriptPath, contentRead, optionsRead) ==
  IF \/ ~contentRead.ok \/ ~optionsRead.ok
     \/ ScriptAt(scriptPath).body = "missing"
     \/ EntryPoint(ExportsOf(scriptPath)) = "none"
  THEN FailedChild
  ELSE HarnessEnd(ScriptAt(scriptPath),
                  RunBody(ScriptAt(scriptPath).body, contentRead.val),
                  ConsoleStdout(ScriptAt(scriptPath).calls),
                  ConsoleStderr(ScriptAt(scriptPath).calls),
                  EntryPoint(ExportsOf(scriptPath)))

\* the stderr data handler: a chunk that starts with LOG: is re-emitted as a
\* log line, any other chunk is appended to the error detail
OnStderrData(acc, message) ==
  IF message # <<>> /\ message[1] = "LOG:" THEN acc ELSE acc \o message

RECURSIVE DrainStderr(_, _)
DrainStderr(acc, chunks) ==
  IF chunks = <<>> THEN acc
  ELSE DrainStderr(OnStderrData(acc, chunks[1]), Tail(chunks))

\* the result of JSON.parse(stdout) in the close handler
ParsedResult(r) == IF r.ok THEN r ELSE Err("Failed to parse transform result")

\* the close handler without its exit-code test
OnClose_IgnoresCode(code, stdout) == ParsedResult(JSONparse(stdout))

\* the close handler's verdict
OnClose(code, stdout) ==
  IF code = 0 THEN ParsedResult(JSONparse(stdout))
  ELSE Err("Transform script failed")

\* fs.writeJsonSync(path, v, {spaces: 2}): the bytes written, or the throw
\* on a value JSON.stringify has no text for
writeJsonSync(v) ==
  IF v.t = "undefined" THEN Err("TypeError")
  ELSE Ok(JSONstringify(v, 2) \o <<"\n">>)

\* the verdict on a child that has run to its end
ChildVerdict(child) == OnClose(child.code, child.stdout)

\* the child reads back the payload files the call has written
RunChild(scriptPath, cfile, ofile) ==
  IF ~cfile.ok \/ ~ofile.ok THEN Err("Failed to execute transform script")
  ELSE ChildVerdict(Harness(scriptPath, JSONparse(cfile.val),
                            JSONparse(ofile.val)))

\* executeTransformScript when nothing else touches its workspace and no
\* file operation fails: the outcome the awaiting runner sees
executeTransformScript(scriptPath, content, options) ==
  RunChild(scriptPath, writeJsonSync(content), writeJsonSync(options))

\* run.ts calls the function in its own process
CallInProcess(script, content) ==
  IF script.body = "missing" \/ script.ends = "throw" THEN Err("TransformError")
  ELSE Ok(RunBody(script.body, content))

\* transformModule.default || transformModule.step1 || transformModule,
\* called without a test: a value that is not a function throws
requireAndCall(functionPath, content) ==
  IF \/ ExportsOf(functionPath).default = "function"
     \/ /\ ExportsOf(functionPath).default = "absent"
        /\ ExportsOf(functionPath).step1 = "function"
  THEN CallInProcess(ScriptAt(functionPath), content)
  ELSE Err("TransformError")

\* ----------------------------------------------------------------- runner
NoFile == [exists |-> FALSE, text |-> <<>>]

\* sameDir: config.output_dir resolves to the input directory. steps0 and
\* outDir0 record the configuration as loaded and the output directory as
\* found; events records what the run did, in order
VARIABLES variant, force, steps, customConfig, inputDir, inputFiles, outDir,
          sameDir, pc, fi, si, err, steps0, outDir0, events

runVars == <<variant, force, steps, customConfig, inputDir, inputFiles, outDir,
             sameDir, pc, fi, si, err, steps0, outDir0, events>>

\* The sandbox: now is Date.now(), tmp the directories under os.tmpdir(),
\* call the state of each call of executeTransformScript.
VARIABLES now, tmp, call

boxVars == <<now, tmp, call>>

\* One function of the engine applied on its own: fn the function, opt its
\* options, hist its argument followed by the value after each application.
VARIABLES fn, opt, hist

fnVars == <<fn, opt, hist>>
vars == <<runVars, boxVars, fnVars>>

Procs == {1, 2}
Dirs == 0..MaxClock
NoDir == [exists |-> FALSE, content |-> NoFile, options |-> NoFile,
          executor |-> FALSE]
NoChild == [stdout |-> <<>>, stderr |-> <<>>, code |-> 0, returned |-> FALSE,
            ret |-> Null, entry |-> "none"]
IdleCall == [st |-> "idle", script |-> "", content |-> Null, dir |-> 0,
             spawned |-> FALSE, exited |-> FALSE, child |-> NoChild,
             stdout |-> <<>>, stderr |-> <<>>, logged |-> 0,
             result |-> Ok(Null), rmFailed |-> FALSE]

BoxIdle ==
  /\ now = 0
  /\ tmp = [d \in Dirs |-> NoDir]
  /\ call = [p \in Procs |-> IdleCall]

FnIdle ==
  /\ fn = ""
  /\ opt = Obj(<<>>, <<>>)
  /\ hist = <<>>

Variants == {"inproc", "node", "bun"}

Name(base, ext) == [base |-> base, ext |-> ext]
File(name, text) == [name |-> name, text |-> text, isFile |-> TRUE]
SubDir(name) == [name |-> name, text |-> <<>>, isFile |-> FALSE]

\* the files an input directory of the model may hold
InputPool ==
  { File(Name("a", ".txt"), <<"a", "b">>),
    File(Name("a", ".json"), <<"\"", "a", "\"">>),
    File(Name("c", ".json"), <<"{", "a">>) }

\* the entries an input directory of the model may hold: the files and a
\* subdirectory
EntryPool == InputPool \cup { SubDir(Name("d", "")) }

NoOptions == Obj(<<>>, <<>>)
Step(type, function, skip) ==
  [name |-> function, type |-> type, function |-> function,
   options |-> NoOptions, skip_existing |-> skip]

StepKinds ==
  { <<"built-in", "toUpperCase">>, <<"built-in", "reverse">>,
    <<"filter", "">>, <<"transform", "wrap.js">>, <<"transform", "crash.js">> }

StepPool == { Step(kd[1], kd[2], sk) : kd \in StepKinds, sk \in BOOLEAN }

RECURSIVE SeqsUpTo(_, _)
\* the sequences over S of length 0..n
SeqsUpTo(S, n) ==
  IF n = 0 THEN { <<>> }
  ELSE LET shorter == SeqsUpTo(S, n - 1)
       IN shorter \cup { Append(q, x) : q \in shorter, x \in S }

Distinct(q) == \A i, j \in 1..Len(q) : i # j => q[i].name # q[j].name

\* the input directories of the model: absent, or holding up to MaxFiles
\* entries, regular files and subdirectories, in the order readdirSync
\* gives them
NoInputDir == [exists |-> FALSE, entries |-> <<>>]
InputDirs ==
  { NoInputDir } \cup
  { [exists |-> TRUE, entries |-> q] :
      q \in { e \in SeqsUpTo(EntryPool, MaxFiles) : Distinct(e) } }

IsRegular(entry) == entry.isFile

\* listFiles without its isFile() filter
listFiles_NoFilter(dir) == IF ~dir.exists THEN <<>> ELSE dir.entries

\* listFiles(inputDir): the regular files of the directory, none when the
\* directory does not exist
listFiles(dir) ==
  IF ~dir.exists THEN <<>> ELSE SelectSeq(dir.entries, IsRegular)

\* path.join(outputDir, fileName) in run.ts and the node variant; the base
\* name with the extension forced to .json in the bun variant
OutputPath(v, name) == IF v = "bun" THEN Name(name.base, ".json") ELSE name

OutPaths ==
  { f.name : f \in EntryPool } \cup { Name(f.name.base, ".json") : f \in EntryPool }
OldText == <<"o">>

\* loadWorkflowCustomConfig: run.ts requires wfconfig.js and holds its
\* functions; the node and bun variants run it as a transform script, which
\* rejects for a module that exports an object and cannot carry a function
\* through JSON, so they hold no registered parser or formatter
LoadedConfigs(v) == IF v = "inproc" THEN ConfigPool ELSE { NoConfig }

\* one thing the run did: input is the text the step read from the input
\* file, text the bytes it wrote
Event(kind, file, step, res, input, text) ==
  [kind |-> kind, file |-> file, step |-> step, res |-> res, input |-> input,
   text |-> text]

\* the directory seen as a set of paths: what existsSync and readFileSync
\* give for each
Listing(dir) ==
  [p \in OutPaths |->
     IF \E i \in 1..Len(dir.entries) : dir.entries[i].name = p
     THEN [exists |-> TRUE,
           text |-> dir.entries[CHOOSE i \in 1..Len(dir.entries) :
                                  dir.entries[i].name = p].text]
     ELSE NoFile]

\* the directory after writeFileSync(path.join(dir, name), bytes)
WriteEntry(dir, name, bytes) ==
  IF \E i \in 1..Len(dir.entries) : dir.entries[i].name = name
  THEN [dir EXCEPT !.entries =
          [i \in 1..Len(dir.entries) |->
             IF dir.entries[i].name = name THEN File(name, bytes)
             ELSE dir.entries[i]]]
  ELSE [exists |-> TRUE, entries |-> Append(dir.entries, File(name, bytes))]

\* a write under outputDir lands in the input directory whatever outputDir is
WritesInput_Always(same) == TRUE

\* whether a write under outputDir lands in the input directory
WritesInput(same) == same

\* the input directory after fs.ensureDirSync(outputDir) (run.ts and the
\* node variant)
EnsuredDir(v, same, dir) ==
  IF WritesInput(same) /\ v # "bun" THEN [dir EXCEPT !.exists = TRUE] ELSE dir

\* the input directory after a write of bytes to path under outputDir
InputAfterWrite(same, dir, path, bytes) ==
  IF WritesInput(same) THEN WriteEntry(dir, path, bytes) ELSE dir

\* fs.readFileSync(filePath): the input file as it is now
ReadInput(dir, file) ==
  File(file.name, Listing(dir)[file.name].text)

Init ==
  /\ variant \in Variants
  /\ force \in BOOLEAN
  /\ steps \in (SeqsUpTo(StepPool, MaxSteps) \ { <<>> })
  /\ customConfig \in LoadedConfigs(variant)
  /\ inputDir \in InputDirs
  /\ inputFiles = <<>>
  /\ sameDir \in BOOLEAN
  /\ IF sameDir THEN outDir = Listing(inputDir)
     ELSE \E done \in SUBSET { f \in InputPool :
                \E i \in 1..Len(inputDir.entries) : inputDir.entries[i] = f } :
            outDir = [p \in OutPaths |->
                       IF \E f \in done : OutputPath(variant, f.name) = p
                       THEN [exists |-> TRUE, text |-> OldText] ELSE NoFile]
  /\ steps0 = steps
  /\ outDir0 = outDir
  /\ pc = "start"
  /\ fi = 1
  /\ si = 1
  /\ err = "none"
  /\ events = <<>>
  /\ BoxIdle
  /\ FnIdle

\* the override forgotten: force leaves skip_existing as configured
ForceOverride_Kept(v, f, st) == st

\* "Override skip_existing if force is true" (run.ts and the node variant)
ForceOverride(v, f, st) ==
  IF f /\ v # "bun"
  THEN [i \in 1..Len(st) |-> [st[i] EXCEPT !.skip_existing = FALSE]]
  ELSE st

\* runWorkflow up to its loop over the input files
Start ==
  /\ pc = "start"
  /\ steps' = ForceOverride(variant, force, steps)
  /\ inputDir' = EnsuredDir(variant, sameDir, inputDir)
  /\ inputFiles' = listFiles(inputDir)
  /\ IF listFiles(inputDir) = <<>>
     THEN /\ events' = Append(events, Event("warn", 0, 0, Ok(Null), <<>>, <<>>))
          /\ pc' = "resolved"
     ELSE /\ pc' = IF variant = "bun" THEN "file" ELSE "step"
          /\ UNCHANGED events
  /\ UNCHANGED <<variant, force, customConfig, outDir, sameDir, fi, si, err,
               steps0, outDir0>>
  /\ UNCHANGED <<boxVars, fnVars>>

\* the skip test with the existence test inverted
StepSkips_Inverted(v, step, exists) == v # "bun" /\ step.skip_existing /\ ~exists

\* the skip test at the top of runWorkflowStep (absent in the bun variant)
StepSkips(v, step, exists) == v # "bun" /\ step.skip_existing /\ exists

\* the skip test at the top of the bun variant's per-file loop body
FileSkips(f, exists) == exists /\ ~f

\* the step's function applied to the parsed content
ExecuteStep(v, step, content) ==
  CASE step.type = "transform" ->
         IF v = "inproc" THEN requireAndCall(step.function, content)
         ELSE executeTransformScript(step.function, content, step.options)
    [] step.type = "built-in" ->
         applyBuiltInFunction(content, step.function, step.options)
    [] step.type = "filter" /\ v # "bun" -> Ok(content)
    [] OTHER -> Err("Unsupported step type")

\* the step applied to what the parse gave
ExecuteParsed(v, step, content) ==
  IF content.ok THEN ExecuteStep(v, step, content.val) ELSE content

\* the bytes written for a step result: run.ts and the node variant call a
\* registered formatter for results whose typeof is "object" only, and fall
\* back to writeOutputFile when it throws; the bun variant's writeOutputFile
\* calls the formatter for every result and lets its error out
FormatValue(v, kind, val) ==
  IF v = "bun"
  THEN IF kind # "none" THEN CustomFormat(kind, val) ELSE writeOutputFile(v, val)
  ELSE IF kind # "none" /\ TypeofObject(val)
       THEN OrDefault(CustomFormat(kind, val), writeOutputFile(v, val))
       ELSE writeOutputFile(v, val)

\* the step's result formatted for the output file
FormatResult(v, cfg, ext, result) ==
  IF result.ok THEN FormatValue(v, Formatter(v, cfg, ext), result.val) ELSE result

\* the body of runWorkflowStep after the skip test: the bytes it writes to
\* the output path, or the error it throws
StepOutput(v, cfg, step, file) ==
  FormatResult(v, cfg, file.name.ext,
               ExecuteParsed(v, step, ParseInput(v, cfg, file)))

\* the loop control after a step call has returned
Advance ==
  IF si < Len(steps) THEN /\ si' = si + 1
                          /\ UNCHANGED <<fi, pc>>
  ELSE IF fi < Len(inputFiles)
  THEN /\ fi' = fi + 1
       /\ si' = 1
       /\ pc' = IF variant = "bun" THEN "file" ELSE "step"
  ELSE /\ pc' = "resolved"
       /\ UNCHANGED <<fi, si>>

\* the loop control after a file has been given up (bun variant)
NextFile ==
  IF fi < Len(inputFiles)
  THEN /\ fi' = fi + 1
       /\ si' = 1
       /\ pc' = "file"
  ELSE /\ pc' = "resolved"
       /\ UNCHANGED <<fi, si>>

\* the bun variant's catch without its rethrow
Propagates_Swallowed(v, f) == v # "bun"

\* whether runWorkflow lets a step's error out of its loop
Propagates(v, f) == v # "bun" \/ ~f

\* the head of the bun variant's loop body for one file
CheckFile ==
  /\ pc = "file"
  /\ IF FileSkips(force, outDir[OutputPath(variant, inputFiles[fi].name)].exists)
     THEN /\ events' = Append(events, Event("skipfile", fi, 0, Ok(Null), <<>>, <<>>))
          /\ NextFile
     ELSE /\ pc' = "step"
          /\ UNCHANGED <<fi, si, events>>
  /\ UNCHANGED <<variant, force, steps, customConfig, inputDir, inputFiles, outDir,
               sameDir, err, steps0, outDir0>>
  /\ UNCHANGED <<boxVars, fnVars>>

\* runWorkflowStep returns at its skip test
StepSkipped ==
  /\ events' = Append(events, Event("skip", fi, si, Ok(Null), <<>>, <<>>))
  /\ Advance
  /\ UNCHANGED <<inputDir, outDir, err>>

\* runWorkflowStep writes bytes at path and returns
StepWritten(path, input, bytes) ==
  /\ outDir' = [outDir EXCEPT ![path] = [exists |-> TRUE, text |-> bytes]]
  /\ inputDir' = InputAfterWrite(sameDir, inputDir, path, bytes)
  /\ events' = Append(events, Event("write", fi, si, Ok(Null), input, bytes))
  /\ Advance
  /\ UNCHANGED err

\* runWorkflowStep throws e: runWorkflow rejects, or (bun variant with
\* force) logs and goes on with the next file
StepFailed(input, e) ==
  /\ events' = Append(events, Event("fail", fi, si, e, input, <<>>))
  /\ UNCHANGED <<inputDir, outDir>>
  /\ IF Propagates(variant, force)
     THEN /\ pc' = "rejected"
          /\ err' = e.err
          /\ UNCHANGED <<fi, si>>
     ELSE /\ NextFile
          /\ UNCHANGED err

StepDone(path, input, out) ==
  IF out.ok THEN StepWritten(path, input, out.val) ELSE StepFailed(input, out)

\* one call of runWorkflowStep(inputFiles[fi], steps[si]) and the loop
\* control of runWorkflow around it
RunStep ==
  /\ pc = "step"
  /\ IF StepSkips(variant, steps[si],
                  outDir[OutputPath(variant, inputFiles[fi].name)].exists)
     THEN StepSkipped
     ELSE StepDone(OutputPath(variant, inputFiles[fi].name),
                   ReadInput(inputDir, inputFiles[fi]).text,
                   StepOutput(variant, customConfig, steps[si],
                              ReadInput(inputDir, inputFiles[fi])))
  /\ UNCHANGED <<variant, force, steps, customConfig, inputFiles, sameDir, steps0,
               outDir0>>
  /\ UNCHANGED <<boxVars, fnVars>>

Next == Start \/ CheckFile \/ RunStep

Spec == Init /\ [][Next]_vars

\* ---------------------------------------------------------------- sandbox
\* the scripts and contents the calls of the model are made with, and the
\* step of the call's synchronous part at which a file operation or the
\* spawn throws
BoxContents == { Str(<<"a">>), Arr(<<Num(<<"1">>)>>) }
Faults == {"none", "content", "options", "executor", "spawn"}

\* how many of the four steps after ensureDirSync(tmpDir) succeed:
\* content.json, options.json, the executor file, spawn
StepsDone(content, fault) ==
  CASE fault = "content" \/ ~writeJsonSync(content).ok -> 0
    [] fault = "options" -> 1
    [] fault = "executor" -> 2
    [] fault = "spawn" -> 3
    [] OTHER -> 4

WrittenFile(r) == [exists |-> TRUE, text |-> r.val]

\* the workspace directory d after the call's synchronous part
Workspace(d, content, done) ==
  [exists |-> TRUE,
   content |-> IF done >= 1 THEN WrittenFile(writeJsonSync(content)) ELSE d.content,
   options |-> IF done >= 2 THEN WrittenFile(writeJsonSync(NoOptions)) ELSE d.options,
   executor |-> done >= 3 \/ d.executor]

\* the call after its synchronous part: the child is running, or the catch
\* has rejected
Invoked(script, content, dir, done) ==
  [IdleCall EXCEPT !.st = IF done = 4 THEN "running" ELSE "rejected",
                   !.script = script, !.content = content, !.dir = dir,
                   !.spawned = done = 4,
                   !.result = IF done = 4 THEN Ok(Null)
                              ELSE Err("Failed to execute transform script")]

\* the body of executeTransformScript up to the registration of the
\* handlers: tmpDir is named after Date.now()
Invoke(p) ==
  /\ call[p].st = "idle"
  /\ \E script \in ScriptPaths, content \in BoxContents, fault \in Faults :
       /\ call' = [call EXCEPT ![p] =
                     Invoked(script, content, now, StepsDone(content, fault))]
       /\ tmp' = [tmp EXCEPT ![now] =
                    Workspace(tmp[now], content, StepsDone(content, fault))]
  /\ UNCHANGED now
  /\ UNCHANGED <<runVars, fnVars>>

Tick ==
  /\ now < MaxClock
  /\ now' = now + 1
  /\ UNCHANGED <<tmp, call>>
  /\ UNCHANGED <<runVars, fnVars>>

ReadJson(f) == IF f.exists THEN JSONparse(f.text) ELSE Err("ENOENT")

\* the child process: it loads the executor from the workspace, which reads
\* the payload files and runs the script
ChildOf(d, script) ==
  IF ~d.exists \/ ~d.executor THEN FailedChild
  ELSE Harness(script, ReadJson(d.content), ReadJson(d.options))

\* the child of call p runs to its exit (a process takes more than the
\* clock's resolution to start)
ChildRuns(p) ==
  /\ call[p].st = "running"
  /\ now > call[p].dir
  /\ call' = [call EXCEPT ![p].st = "streaming",
                          ![p].child = ChildOf(tmp[call[p].dir], call[p].script)]
  /\ UNCHANGED <<now, tmp>>
  /\ UNCHANGED <<runVars, fnVars>>

\* childProcess.stdout.on("data"): the next n tokens arrive
StdoutData(p) ==
  /\ call[p].st = "streaming"
  /\ \E n \in 1..Len(call[p].child.stdout) :
       call' = [call EXCEPT
                  ![p].stdout = @ \o SubSeq(call[p].child.stdout, 1, n),
                  ![p].child.stdout = SubSeq(@, n + 1, Len(@))]
  /\ UNCHANGED <<now, tmp>>
  /\ UNCHANGED <<runVars, fnVars>>

\* whether the stderr data handler re-emits the chunk as a log line
IsLogChunk(message) == message # <<>> /\ message[1] = "LOG:"

\* childProcess.stderr.on("data"): the next n writes arrive as one chunk
StderrData(p) ==
  /\ call[p].st = "streaming"
  /\ \E n \in 1..Len(call[p].child.stderr) :
       call' = [call EXCEPT
                  ![p].stderr =
                     OnStderrData(@, Concat(SubSeq(call[p].child.stderr, 1, n))),
                  ![p].logged =
                     IF IsLogChunk(Concat(SubSeq(call[p].child.stderr, 1, n)))
                     THEN @ + 1 ELSE @,
                  ![p].child.stderr = SubSeq(@, n + 1, Len(@))]
  /\ UNCHANGED <<now, tmp>>
  /\ UNCHANGED <<runVars, fnVars>>

\* fs.removeSync(tmpDir) inside try/catch: the directory is gone unless the
\* removal failed
Removed(d, failed) == IF failed THEN d ELSE NoDir

Closed(c, verdict, failed) ==
  [c EXCEPT !.st = IF verdict.ok THEN "resolved" ELSE "rejected",
            !.exited = TRUE, !.result = verdict, !.rmFailed = failed]

\* childProcess.on("close"): both streams have ended and the child has exited
Close(p) ==
  /\ call[p].st = "streaming"
  /\ call[p].child.stdout = <<>>
  /\ call[p].child.stderr = <<>>
  /\ \E failed \in BOOLEAN :
       /\ tmp' = [tmp EXCEPT ![call[p].dir] = Removed(@, failed)]
       /\ call' = [call EXCEPT ![p] =
                     Closed(@, OnClose(call[p].child.code, call[p].stdout), failed)]
  /\ UNCHANGED now
  /\ UNCHANGED <<runVars, fnVars>>

\* no run of runWorkflow is under way
RunIdle ==
  /\ variant = "node"
  /\ force = FALSE
  /\ steps = <<>>
  /\ customConfig = NoConfig
  /\ inputDir = NoInputDir
  /\ inputFiles = <<>>
  /\ outDir = [p \in OutPaths |-> NoFile]
  /\ sameDir = FALSE
  /\ steps0 = <<>>
  /\ outDir0 = outDir
  /\ pc = "idle"
  /\ fi = 1
  /\ si = 1
  /\ err = "none"
  /\ events = <<>>

BoxInit == RunIdle /\ BoxIdle /\ FnIdle

BoxNext ==
  \/ Tick
  \/ \E p \in Procs : Invoke(p)
  \/ \E p \in Procs : ChildRuns(p)
  \/ \E p \in Procs : StdoutData(p)
  \/ \E p \in Procs : StderrData(p)
  \/ \E p \in Procs : Close(p)

SandboxSpec == BoxInit /\ [][BoxNext]_vars

\* the calls one run of runWorkflow makes, one after the other: the runner
\* awaits each call and goes on with its next step or file when the call
\* has resolved, or has rejected and the run does not let the error out
Await(p) ==
  /\ \/ call[p].st = "resolved"
     \/ call[p].st = "rejected" /\ ~Propagates(variant, force)
  /\ call' = [call EXCEPT ![p] = IdleCall]
  /\ UNCHANGED <<now, tmp>>
  /\ UNCHANGED <<runVars, fnVars>>

\* a run of the node or of the bun variant is about to call its first
\* transform script
RunBoxInit ==
  /\ variant \in {"node", "bun"}
  /\ force \in BOOLEAN
  /\ steps = <<>>
  /\ customConfig = NoConfig
  /\ inputDir = NoInputDir
  /\ inputFiles = <<>>
  /\ outDir = [p \in OutPaths |-> NoFile]
  /\ sameDir = FALSE
  /\ steps0 = <<>>
  /\ outDir0 = outDir
  /\ pc = "step"
  /\ fi = 1
  /\ si = 1
  /\ err = "none"
  /\ events = <<>>
  /\ BoxIdle
  /\ FnIdle

RunBoxNext ==
  \/ Tick
  \/ Invoke(1)
  \/ ChildRuns(1)
  \/ StdoutData(1)
  \/ StderrData(1)
  \/ Close(1)
  \/ Await(1)

RunBoxSpec == RunBoxInit /\ [][RunBoxNext]_vars

\* ---------------------------------------------------- functions on their own
\* the elements of the model's arrays and objects: strings, numbers, null,
\* a nested array and a nested object
Elems ==
  { Str(<<"a">>), Str(<<"A", "b">>), Num(<<"1">>), Null,
    Arr(<<Str(<<"a">>)>>), Obj(<< <<"b">> >>, <<Str(<<"a">>)>>) }

\* the contents the case built-ins are applied to: the elements, undefined,
\* and the arrays and objects of up to MaxElems elements (the i-th key of an
\* object is a followed by i - 1 times b)
CaseContents ==
  Elems \cup { Undefined }
  \cup { Arr(q) : q \in SeqsUpTo(Elems, MaxElems) }
  \cup { Obj([i \in 1..Len(q) |-> [j \in 1..i |-> IF j = 1 THEN "a" ELSE "b"]], q) :
           q \in SeqsUpTo(Elems, MaxElems) }

\* the template contents: texts of up to MaxSegments pieces, placeholders
\* among them, and contents that are not strings
TemplateContents ==
  { Str(Concat(q)) :
      q \in SeqsUpTo({ <<"a">>, <<"{", "{", "a", "}", "}">>,
                       <<"{", "{", " ", "a", "\n", "}", "}">>,
                       <<"{", "{", "b", "}", "}">>, <<"{", "{", "a", "}">>,
                       <<"{", "{", "a", "b", "}", "}">> }, MaxSegments) }
  \cup { Num(<<"1">>), Null, Arr(<<Str(<<"{", "{", "a", "}", "}">>)>>) }

TemplateOptions ==
  { Obj(<<>>, <<>>),
    Obj(<< <<"a">> >>, <<Str(<<"x">>)>>),
    Obj(<< <<"a">> >>, <<Num(<<"1">>)>>),
    Obj(<< <<"a">>, <<"b">> >>, <<Str(<<"x">>), Null>>),
    Obj(<< <<"a">>, <<"b">> >>, <<Str(<<"{", "{", "b", "}", "}">>), Str(<<"y">>)>>),
    Obj(<< <<".">> >>, <<Str(<<"x">>)>>),
    Obj(<< <<"a">> >>, <<Str(<<"$&">>)>>) }

\* the CSV texts: up to MaxLines lines joined by line breaks
CsvTexts ==
  { Str(JoinTexts(q, <<"\n">>)) :
      q \in SeqsUpTo({ <<>>, <<" ">>, <<"a", ",", "b">>, <<"a", ",", "a">>,
                       <<" ", "a", " ", ",", "b", " ">>, <<"1", ",", "2">>, <<"1">>,
                       <<" ", "1", " ", ",", " ", "2">>, <<"1", ",", "2", ",", "a">>,
                       <<"a", ";", "b">>, <<"1", ";", "2">> }, MaxLines) }

CsvOptions ==
  { Obj(<<>>, <<>>),
    Obj(<< <<"d", "e", "l", "i", "m", "i", "t", "e", "r">> >>, <<Str(<<";">>)>>) }

\* a path: absolute or relative, and its segments in order
Path(abs, segs) == [t |-> "path", abs |-> abs, segs |-> segs]

RECURSIVE Normalize(_, _)
\* the segments with "." dropped and ".." taken together with the segment
\* before it (".." at the root stays at the root)
Normalize(segs, acc) ==
  IF segs = <<>> THEN acc
  ELSE IF segs[1] = "." THEN Normalize(Tail(segs), acc)
  ELSE IF segs[1] = ".."
  THEN Normalize(Tail(segs), SubSeq(acc, 1, Len(acc) - 1))
  ELSE Normalize(Tail(segs), Append(acc, segs[1]))

\* path.resolve(from, to) for an absolute from
pathResolve(from, to) ==
  Path(TRUE, Normalize(IF to.abs THEN to.segs ELSE from.segs \o to.segs, <<>>))

\* path.dirname of an absolute path
dirname(p) == Path(TRUE, SubSeq(p.segs, 1, Len(p.segs) - 1))

\* process.cwd()
Cwd == Path(TRUE, <<"h", "w">>)

\* the workflow directory with one path.dirname only: the directory of the
\* configuration file
workflowDir_ConfigDir(configPath) == dirname(pathResolve(Cwd, configPath))

\* "Get the workflow directory (parent of the config directory)"
workflowDir(configPath) == dirname(dirname(pathResolve(Cwd, configPath)))

\* utils/fs.ts: resolves against the directory of the configuration file
\* (runWorkflow does not call it)
resolvePathRelativeToConfig(pathToResolve, configPath) ==
  IF pathToResolve.abs THEN pathToResolve
  ELSE pathResolve(dirname(pathResolve(Cwd, configPath)), pathToResolve)

\* the values of options.config and of input_dir and output_dir in the model
ConfigPaths ==
  { Path(FALSE, <<"D", "workflow.json">>), Path(FALSE, <<"workflow.json">>),
    Path(FALSE, <<"D", "config", "workflow.json">>),
    Path(FALSE, <<"..", "D", "workflow.json">>),
    Path(TRUE, <<"D", "workflow.json">>), Path(TRUE, <<"workflow.json">>) }

ConfigDirs ==
  { Path(FALSE, <<"in">>), Path(FALSE, <<"out">>), Path(FALSE, <<".">>),
    Path(FALSE, <<"..", "in">>), Path(FALSE, <<"data", "in">>),
    Path(TRUE, <<"in">>) }

FnInit ==
  /\ RunIdle
  /\ BoxIdle
  /\ \/ /\ fn = "resolve"
        /\ opt \in [t : {"config"}, input_dir : ConfigDirs, output_dir : ConfigDirs]
        /\ \E c \in ConfigPaths : hist = <<c>>
     \/ /\ fn \in {"toUpperCase", "toLowerCase"}
        /\ opt = Obj(<<>>, <<>>)
        /\ \E c \in CaseContents : hist = <<c>>
     \/ /\ fn = "template"
        /\ opt \in TemplateOptions
        /\ \E c \in TemplateContents : hist = <<c>>
     \/ /\ fn = "parseCSV"
        /\ opt \in CsvOptions
        /\ \E c \in CsvTexts : hist = <<c>>

\* a built-in step applied to the value the last application gave
ApplyBuiltIn ==
  /\ fn \in {"toUpperCase", "toLowerCase", "template"}
  /\ Len(hist) <= MaxApply
  /\ hist' = Append(hist, applyBuiltInFunction(hist[Len(hist)], fn, opt).val)
  /\ UNCHANGED <<fn, opt>>
  /\ UNCHANGED <<runVars, boxVars>>

\* options?.delimiter || ","
Delimiter(options) ==
  IF \E i \in 1..Len(options.k) : options.k[i] = <<"d", "e", "l", "i", "m", "i", "t", "e", "r">>
  THEN options.c[1].s[1] ELSE ","

\* parsers.parseCSV on the text of a file
ParseCsvText ==
  /\ fn = "parseCSV"
  /\ Len(hist) = 1
  /\ hist' = Append(hist, ParseCsv(hist[1].s, Delimiter(opt)))
  /\ UNCHANGED <<fn, opt>>
  /\ UNCHANGED <<runVars, boxVars>>

\* runWorkflow resolves config.input_dir and config.output_dir: hist gets
\* inputDir and outputDir after the value of options.config
ResolveDirs ==
  /\ fn = "resolve"
  /\ Len(hist) = 1
  /\ hist' = <<hist[1], pathResolve(workflowDir(hist[1]), opt.input_dir),
               pathResolve(workflowDir(hist[1]), opt.output_dir)>>
  /\ UNCHANGED <<fn, opt>>
  /\ UNCHANGED <<runVars, boxVars>>

FnNext == ApplyBuiltIn \/ ParseCsvText \/ ResolveDirs

FnSpec == FnInit /\ [][FnNext]_vars

\* --------------------------------------------------- function properties
\* o[key], undefined when o has no such property
Prop(o, key) ==
  IF \E i \in 1..Len(o.k) : o.k[i] = key
  THEN o.c[CHOOSE i \in 1..Len(o.k) : o.k[i] = key]
  ELSE Undefined

\* the value the claim gives the header at position i of a row: the trimmed
\* i-th field of the line, the empty string when the line has no i-th field
FieldAt(line, delimiter, i) ==
  Str(IF i <= Len(Split(line, delimiter, <<>>))
      THEN Trim(Split(line, delimiter, <<>>)[i]) ELSE <<>>)

\* C16 as stated: the non-blank lines of the text give one header line and
\* one row per further line, in order, and each row maps the header at every
\* position i to the trimmed i-th field of its line ("" when absent).
C16_CsvRowsByPosition ==
  (fn = "parseCSV" /\ Len(hist) = 2) =>
    LET lines == SelectSeq(Split(hist[1].s, "\n", <<>>), LAMBDA l : Trim(l) # <<>>)
        heads == Split(lines[1], Delimiter(opt), <<>>)
    IN IF lines = <<>> THEN hist[2] = Arr(<<>>)
       ELSE /\ hist[2].t = "arr"
            /\ Len(hist[2].c) = Len(lines) - 1
            /\ \A r \in 1..(Len(lines) - 1) : \A i \in 1..Len(heads) :
                 Prop(hist[2].c[r], Trim(heads[i]))
                   = FieldAt(lines[r + 1], Delimiter(opt), i)

\* C16 amended: as above, but a header that occurs at several positions of
\* the header line is mapped to the field at the last of them, each row has
\* exactly one property per distinct header, and nothing else.
C16_CsvRowsByLastPosition ==
  (fn = "parseCSV" /\ Len(hist) = 2) =>
    LET lines == SelectSeq(Split(hist[1].s, "\n", <<>>), LAMBDA l : Trim(l) # <<>>)
        heads == Split(lines[1], Delimiter(opt), <<>>)
    IN IF lines = <<>> THEN hist[2] = Arr(<<>>)
       ELSE /\ hist[2].t = "arr"
            /\ Len(hist[2].c) = Len(lines) - 1
            /\ \A r \in 1..(Len(lines) - 1) :
                 /\ hist[2].c[r].t = "obj"
                 /\ { hist[2].c[r].k[j] : j \in 1..Len(hist[2].c[r].k) }
                      = { Trim(heads[i]) : i \in 1..Len(heads) }
                 /\ Len(hist[2].c[r].k)
                      = Cardinality({ Trim(heads[i]) : i \in 1..Len(heads) })
                 /\ \A i \in 1..Len(heads) :
                      (\A j \in (i + 1)..Len(heads) : Trim(heads[j]) # Trim(heads[i]))
                      => Prop(hist[2].c[r], Trim(heads[i]))
                           = FieldAt(lines[r + 1], Delimiter(opt), i)

\* "a,a", a blank line, "1,2", "1": two rows, the repeated header keeps the
\* second field
C16_Witness ==
  /\ fn = "parseCSV"
  /\ Len(hist) = 2
  /\ hist[1].s = <<"a", ",", "a", "\n", " ", "\n", "1", ",", "2">>
  /\ hist[2] = Arr(<<Obj(<< <<"a">> >>, <<Str(<<"2">>)>>)>>)

\* what the case built-in named name makes of one element or property value
Folded(name, v) ==
  IF v.t # "str" THEN v
  ELSE Str([i \in 1..Len(v.s) |->
             IF name = "toUpperCase"
             THEN (CASE v.s[i] = "a" -> "A" [] v.s[i] = "b" -> "B" [] OTHER -> v.s[i])
             ELSE (CASE v.s[i] = "A" -> "a" [] v.s[i] = "B" -> "b" [] OTHER -> v.s[i])])

\* C17: toUpperCase and toLowerCase fold a string content; in an array they
\* fold exactly the string elements, in an object exactly the string-valued
\* properties, keys and all other values staying as they are and in place;
\* any other content comes back unchanged.
C17_CaseFoldsStringsOnly ==
  (fn \in {"toUpperCase", "toLowerCase"} /\ Len(hist) >= 2) =>
    CASE hist[1].t = "str" -> hist[2] = Folded(fn, hist[1])
      [] hist[1].t \in {"arr", "obj"} ->
           /\ hist[2].t = hist[1].t
           /\ hist[2].k = hist[1].k
           /\ Len(hist[2].c) = Len(hist[1].c)
           /\ \A i \in 1..Len(hist[1].c) : hist[2].c[i] = Folded(fn, hist[1].c[i])
      [] OTHER -> hist[2] = hist[1]

\* {a: 1, ab: "a"} becomes {a: 1, ab: "A"}
C17_Witness ==
  /\ fn = "toUpperCase"
  /\ Len(hist) >= 2
  /\ hist[1] = Obj(<< <<"a">>, <<"a", "b">> >>, <<Num(<<"1">>), Str(<<"a">>)>>)
  /\ hist[2] = Obj(<< <<"a">>, <<"a", "b">> >>, <<Num(<<"1">>), Str(<<"A">>)>>)

\* C18: toUpperCase applied to its own result gives that result again.
C18_UpperCaseIdempotent ==
  (fn = "toUpperCase" /\ Len(hist) >= 3) => hist[3] = hist[2]

C18_Witness ==
  /\ fn = "toUpperCase"
  /\ Len(hist) = 3
  /\ hist[1].t = "arr"
  /\ hist[2] # hist[1]
  /\ hist[3] = hist[2]

\* the last position of the text {{ key }} (any white space around key)
\* that starts at position i of s, 0 when there is none
PlaceholderEnd(s, i, key) ==
  LET ends == { e \in i..Len(s) :
                 \E m, n \in 0..Len(s) :
                   /\ e = i + 3 + m + Len(key) + n
                   /\ s[i] = "{" /\ s[i + 1] = "{"
                   /\ \A j \in 1..m : s[i + 1 + j] \in {" ", "\n"}
                   /\ SubSeq(s, i + 2 + m, i + 1 + m + Len(key)) = key
                   /\ \A j \in 1..n : s[i + 1 + m + Len(key) + j] \in {" ", "\n"}
                   /\ s[e - 1] = "}" /\ s[e] = "}" }
  IN IF ends = {} THEN 0 ELSE CHOOSE e \in ends : TRUE

\* s from position i on, each placeholder of a key of options replaced by
\* the text of the key's value, everything else kept
RECURSIVE Filled(_, _, _)
Filled(s, i, options) ==
  IF i > Len(s) THEN <<>>
  ELSE LET hits == { x \in 1..Len(options.k) : PlaceholderEnd(s, i, options.k[x]) > 0 }
       IN IF hits = {} THEN <<s[i]>> \o Filled(s, i + 1, options)
          ELSE LET x == CHOOSE y \in hits : TRUE
               IN (CASE options.c[x].t \in {"str", "num"} -> options.c[x].s
                     [] OTHER -> <<"null">>)
                  \o Filled(s, PlaceholderEnd(s, i, options.k[x]) + 1, options)

\* C19: template replaces, in a string content, every placeholder {{ key }}
\* of a key of options by the text of options[key] and leaves every other
\* placeholder, and every other character, as it is; a content that is not
\* a string comes back unchanged.
C19_TemplateFillsPlaceholders ==
  (fn = "template" /\ Len(hist) >= 2) =>
    hist[2] = IF hist[1].t = "str" THEN Str(Filled(hist[1].s, 1, opt)) ELSE hist[1]

\* C22 as stated: a relative input_dir and output_dir are resolved against
\* the directory that contains the configuration file (for D/workflow.json,
\* D/in and D/out).
C22_DirsRelativeToConfigDir ==
  (fn = "resolve" /\ Len(hist) = 3) =>
    /\ ~opt.input_dir.abs =>
         hist[2] = resolvePathRelativeToConfig(opt.input_dir, hist[1])
    /\ ~opt.output_dir.abs =>
         hist[3] = resolvePathRelativeToConfig(opt.output_dir, hist[1])

\* C22 amended: a relative input_dir and output_dir are resolved against the
\* parent of the directory that contains the configuration file: the
\* absolute path of the configuration file without its last two segments,
\* followed by the segments of the directory.
C22_DirsRelativeToWorkflowDir ==
  (fn = "resolve" /\ Len(hist) = 3) =>
    LET config == Normalize(IF hist[1].abs THEN hist[1].segs
                            ELSE Cwd.segs \o hist[1].segs, <<>>)
        root == SubSeq(config, 1, Len(config) - 2)
    IN /\ hist[2].abs /\ hist[3].abs
       /\ ~opt.input_dir.abs => hist[2].segs = Normalize(root \o opt.input_dir.segs, <<>>)
       /\ ~opt.output_dir.abs => hist[3].segs = Normalize(root \o opt.output_dir.segs, <<>>)

C22_Witness ==
  /\ fn = "resolve"
  /\ hist = <<Path(FALSE, <<"D", "config", "workflow.json">>),
              Path(TRUE, <<"h", "w", "D", "in">>),
              Path(TRUE, <<"h", "w", "D", "out">>)>>

\* ------------------------------------------------------- runner properties
FileIds == 1..Len(inputFiles)
EventsOf(kinds, f) ==
  { i \in 1..Len(events) : events[i].kind \in kinds /\ events[i].file = f }
StepsOf(kinds, f) == { events[i].step : i \in EventsOf(kinds, f) }
PathOf(f) == OutputPath(variant, inputFiles[f].name)
AllSkipExisting == \A i \in 1..Len(steps0) : steps0[i].skip_existing
Settled == pc \in {"resolved", "rejected"}

\* every step of file f ran to its end in this run
Completed(f) == StepsOf({"write"}, f) = 1..Len(steps)

RECURSIVE Chain(_, _, _, _)
\* the left-to-right fold of the step list from step i on over a content
Chain(v, st, i, content) ==
  IF i > Len(st) THEN Ok(content)
  ELSE LET r == ExecuteStep(v, st[i], content)
       IN IF r.ok THEN Chain(v, st, i + 1, r.val) ELSE r

\* C1: when the run has resolved, every input file all of whose steps ran
\* (none skipped, none failed) has at its output path the formatted result
\* of folding the whole step list over the parsed input.
C1_OutputIsFoldOfSteps ==
  pc = "resolved" =>
    \A f \in FileIds :
      LET seed == parseFileContent(variant, inputFiles[f].text,
                                   inputFiles[f].name.ext)
          fold == IF seed.ok THEN Chain(variant, steps, 1, seed.val) ELSE seed
          bytes == IF fold.ok THEN writeOutputFile(variant, fold.val) ELSE fold
      IN (Completed(f) /\ bytes.ok) => outDir[PathOf(f)].text = bytes.val

\* C2: without force and with skip_existing on every step, a file whose
\* output path exists when the run starts has no step executed and its
\* output file keeps its bytes.
C2_ExistingOutputUntouched ==
  (~force /\ AllSkipExisting) =>
    \A f \in FileIds :
      outDir0[PathOf(f)].exists =>
        /\ EventsOf({"write", "fail"}, f) = {}
        /\ outDir[PathOf(f)] = outDir0[PathOf(f)]

C2_Witness ==
  /\ pc = "resolved" /\ ~force /\ AllSkipExisting
  /\ \E f \in FileIds :
       /\ outDir0[PathOf(f)].exists
       /\ EventsOf({"skip", "skipfile"}, f) # {}
       /\ outDir[PathOf(f)].text = OldText

\* C3: with force, nothing is skipped, and once the run has resolved every
\* input file that did not fail has had each of its steps executed and its
\* output path rewritten by the last of them: the path holds the bytes of
\* the last write the run made to it.
C3_ForceReprocesses ==
  force =>
    /\ \A f \in FileIds : EventsOf({"skip", "skipfile"}, f) = {}
    /\ pc = "resolved" =>
         \A f \in FileIds :
           EventsOf({"fail"}, f) = {} =>
             /\ Completed(f)
             /\ \E i \in EventsOf({"write"}, f) : events[i].step = Len(steps)
             /\ \E i \in 1..Len(events) :
                  /\ events[i].kind = "write"
                  /\ PathOf(events[i].file) = PathOf(f)
                  /\ \A j \in (i + 1)..Len(events) :
                       ~(events[j].kind = "write"
                         /\ PathOf(events[j].file) = PathOf(f))
                  /\ outDir[PathOf(f)] = [exists |-> TRUE, text |-> events[i].text]

C3_Witness ==
  /\ pc = "resolved" /\ force /\ AllSkipExisting
  /\ \E f \in FileIds :
       /\ outDir0[PathOf(f)].exists
       /\ Completed(f)
       /\ outDir[PathOf(f)].text # OldText

\* C4: without force, a failed step is the last thing the run does: the run
\* rejects with the step's error, and no step is executed and no output is
\* written for any later input file (its output path is as the run found
\* it, unless it is also the output path of a file the run has processed).
C4_FailureAborts ==
  ~force =>
    \A i \in 1..Len(events) :
      events[i].kind = "fail" =>
        /\ i = Len(events)
        /\ pc = "rejected"
        /\ err = events[i].res.err
        /\ \A g \in FileIds :
             g > events[i].file =>
               /\ EventsOf({"write", "fail", "skip", "skipfile"}, g) = {}
               /\ (\A h \in 1..events[i].file : PathOf(h) # PathOf(g))
                  => outDir[PathOf(g)] = outDir0[PathOf(g)]

C4_Witness ==
  /\ ~force /\ pc = "rejected"
  /\ \E i \in 1..Len(events) :
       /\ events[i].kind = "fail"
       /\ events[i].res.err = "Transform script failed"
       /\ events[i].file < Len(inputFiles)

\* C5: with force, in run.ts and in the node variant, a failed step does not
\* make the run reject, and every later input file is still processed.
C5_ForceContinuesAfterFailure ==
  (force /\ variant \in {"inproc", "node"}) =>
    /\ pc # "rejected"
    /\ pc = "resolved" =>
         \A f \in FileIds : EventsOf({"write", "fail"}, f) # {}

\* C11: when the input directory does not exist or holds no regular file,
\* the run warns and resolves: no step is executed and the output directory
\* is left as it was.
C11_EmptyInputResolves ==
  (pc # "start" /\ (~inputDir.exists
                    \/ \A i \in 1..Len(inputDir.entries) : ~inputDir.entries[i].isFile))
  => /\ pc = "resolved"
     /\ events = <<Event("warn", 0, 0, Ok(Null), <<>>, <<>>)>>
     /\ outDir = outDir0

C11_Witness ==
  /\ pc = "resolved"
  /\ inputDir.exists
  /\ inputDir.entries # <<>>
  /\ inputFiles = <<>>
  /\ events # <<>>

\* C12: for a .json input file whose text is not valid JSON, with no custom
\* json parser registered, no step writes an output for the file: every step
\* executed on it fails with the parse error.
C12_InvalidJsonFails ==
  \A f \in FileIds :
    (/\ inputFiles[f].name.ext = ".json"
     /\ ~JSONparse(inputFiles[f].text).ok
     /\ customConfig.parsers["json"] = "none")
    => /\ EventsOf({"write"}, f) = {}
       /\ \A i \in EventsOf({"fail"}, f) : events[i].res.err = "ParseError"

\* C13: when a custom parser is registered for the input file's extension,
\* each executed step works on the custom parser's result, or, when the
\* custom parser throws, on the default parser's result; the step's outcome
\* is the one that content gives, so a throwing parser fails no file.
C13_CustomParserFirst ==
  \A i \in 1..Len(events) :
    (/\ events[i].kind \in {"write", "fail"}
     /\ customConfig.parsers[ExtKey(inputFiles[events[i].file].name.ext)] # "none")
    => LET file == File(inputFiles[events[i].file].name, events[i].input)
           custom == CustomParse(customConfig.parsers[ExtKey(file.name.ext)],
                                 file.text)
           content == IF custom.ok THEN custom
                      ELSE parseFileContent(variant, file.text, file.name.ext)
           result == ExecuteParsed(variant, steps[events[i].step], content)
           bytes == FormatResult(variant, customConfig, file.name.ext, result)
       IN /\ content.ok
          /\ IF bytes.ok
             THEN events[i].kind = "write" /\ events[i].text = bytes.val
             ELSE events[i].kind = "fail" /\ events[i].res = bytes

C13_Witness ==
  /\ pc = "resolved"
  /\ \E i, j \in 1..Len(events) :
       /\ events[i].kind = "write" /\ events[j].kind = "write"
       /\ inputFiles[events[i].file].name.ext = ".json"
       /\ customConfig.parsers["json"] = "bad"
       /\ JSONparse(inputFiles[events[i].file].text).ok
       /\ ~JSONparse(inputFiles[events[j].file].text).ok

\* C14: when a custom formatter is registered for the output extension, or
\* failing that for output.defaultFormat, every step result, structured or
\* not, is written as the formatter's output, or with the default formatting
\* when the formatter throws; the step does not fail.
C14_CustomFormatterUsed ==
  \A i \in 1..Len(events) :
    events[i].kind \in {"write", "fail"} =>
      LET file == File(inputFiles[events[i].file].name, events[i].input)
          result == ExecuteParsed(variant, steps[events[i].step],
                                  ParseInput(variant, customConfig, file))
          byExt == customConfig.formatters[ExtKey(PathOf(events[i].file).ext)]
          kind == IF byExt # "none" THEN byExt
                  ELSE customConfig.formatters[customConfig.defaultFormat]
      IN (result.ok /\ kind # "none") =>
           /\ events[i].kind = "write"
           /\ events[i].text =
                IF kind = "good" THEN CustomFormat(kind, result.val).val
                ELSE writeOutputFile(variant, result.val).val

\* C15: with the default parser and formatting, a well-formed JSON input
\* file all of whose steps return their content unchanged (filter steps)
\* has an output file that parses as JSON to the value the input parses to.
C15_JsonRoundTrip ==
  (/\ pc = "resolved"
   /\ customConfig = NoConfig
   /\ \A i \in 1..Len(steps) : steps[i].type = "filter")
  => \A f \in FileIds :
       (/\ inputFiles[f].name.ext = ".json"
        /\ JSONparse(inputFiles[f].text).ok
        /\ Completed(f))
       => JSONparse(outDir[PathOf(f)].text) = JSONparse(inputFiles[f].text)

\* C21: a file, or a step of it, is skipped only when force is off, some step
\* of the configuration has skip_existing and the file's output path exists.
C21_SkipOnlyWhenConfigured ==
  \A i \in 1..Len(events) :
    events[i].kind \in {"skip", "skipfile"} =>
      /\ ~force
      /\ \E s \in 1..Len(steps0) : steps0[s].skip_existing
      /\ outDir[PathOf(events[i].file)].exists

\* C23: once a step of a file has been skipped, nothing more is executed or
\* written for that file in the run.
C23_SkippedIsTerminal ==
  \A i, j \in 1..Len(events) :
    (/\ i < j
     /\ events[i].kind \in {"skip", "skipfile"}
     /\ events[j].file = events[i].file)
    => events[j].kind \notin {"write", "fail"}

\* C24: no step of a file is skipped after a step of that file has executed
\* in the same run.
C24_SkippedOnlyFromPending ==
  \A i, j \in 1..Len(events) :
    (/\ i < j
     /\ events[i].kind \in {"write", "fail"}
     /\ events[j].file = events[i].file)
    => events[j].kind \notin {"skip", "skipfile"}

\* C25: a file all of whose steps ran has been written exactly once in the
\* run, by its last step.
C25_WrittenOnceAfterLastStep ==
  \A f \in FileIds :
    Completed(f) =>
      \A i \in EventsOf({"write"}, f) : events[i].step = Len(steps)

\* C28: when the run has ended, an output path that did not exist before the
\* run exists only for input files all of whose steps ran to their end.
C28_OutputOnlyForCompletedFiles ==
  Settled =>
    \A f \in FileIds :
      (outDir[PathOf(f)].exists /\ ~outDir0[PathOf(f)].exists) =>
        \E g \in FileIds : PathOf(g) = PathOf(f) /\ Completed(g)

\* C29: no two input files of a run have the same output path: no file's
\* output is written over, and no file is skipped on the output, of another
\* input file.
C29_DistinctOutputPaths ==
  /\ \A f, g \in FileIds : f # g => PathOf(f) # PathOf(g)
  /\ \A i, j \in 1..Len(events) :
       (/\ i < j
        /\ events[i].kind = "write"
        /\ events[j].kind \in {"write", "skipfile"}
        /\ events[j].file # events[i].file)
       => PathOf(events[j].file) # PathOf(events[i].file)

OnlyLogs(path) ==
  \A i \in 1..Len(ScriptAt(path).calls) : ScriptAt(path).calls[i].method = "log"
InFlight(p) == call[p].st \in {"running", "streaming"}
HasSettled(p) == call[p].st \in {"resolved", "rejected"}

\* C6: when the script only calls console.log and then returns a value that
\* JSON can carry, the call resolves to exactly that value.
C6_LoggedTextNotInResult ==
  \A p \in Procs :
    (/\ call[p].exited
     /\ OnlyLogs(call[p].script)
     /\ call[p].child.returned
     /\ call[p].child.ret.t # "undefined")
    => /\ call[p].st = "resolved"
       /\ call[p].result = Ok(call[p].child.ret)

C6_Witness ==
  \E p \in Procs :
    /\ call[p].exited
    /\ call[p].script = "log.js"
    /\ call[p].logged >= 1
    /\ call[p].result = Ok(call[p].content)

\* C7: whatever the script prints through the console, the child's stdout
\* carries exactly the JSON text of the script's return value, or nothing.
C7_StdoutOnlyResult ==
  \A p \in Procs :
    call[p].exited =>
      \/ call[p].stdout = <<>>
      \/ /\ call[p].child.returned
         /\ call[p].stdout = JSONstringify(call[p].child.ret, 0)

C9_WorkspaceRemoved ==
  \A p \in Procs :
    HasSettled(p) => (~tmp[call[p].dir].exists \/ call[p].rmFailed)

\* C10: two calls that are in flight at the same time never use the same
\* temporary directory.
C10_DistinctWorkspaces ==
  \A p, q \in Procs :
    (p # q /\ InFlight(p) /\ InFlight(q)) => call[p].dir # call[q].dir

\* C26: while one run makes its calls one after the other, at most one
\* temporary directory exists at any moment, and when the run is about to
\* begin a call no temporary directory of an earlier call is left.
C26_OneChildOneWorkspace ==
  /\ Cardinality({ d \in Dirs : tmp[d].exists }) <= 1
  /\ call[1].st = "idle" => \A d \in Dirs : ~tmp[d].exists

IsUntagged(message) == ~IsLogChunk(message)

\* C27: however the child's writes to stderr arrive in chunks, the error
\* detail of a call that ends with a nonzero exit code is the text of the
\* writes without the LOG: tag, in order, and each tagged write has been
\* re-emitted as a log line.
C27_TaggedLinesFilteredByLine ==
  \A p \in Procs :
    (/\ call[p].exited
     /\ call[p].child.code # 0
     /\ \A q \in Procs \ {p} : call[q].st = "idle" \/ call[q].dir # call[p].dir)
    => LET writes == Harness(call[p].script, Ok(call[p].content),
                             Ok(NoOptions)).stderr
       IN /\ call[p].stderr = Concat(SelectSeq(writes, IsUntagged))
          /\ call[p].logged = Len(SelectSeq(writes, IsLogChunk))

\* C20: the harness calls the first of the module's default export, its
\* export step1 and the module value itself that is a function (the module
\* value of an import() never is); when none is, the child fails with a
\* nonzero exit code and has called nothing.
C20_FirstCallableEntryPoint ==
  \A p \in Procs :
    (/\ call[p].st \in {"streaming", "resolved", "rejected"}
     /\ call[p].spawned
     /\ \A q \in Procs \ {p} : call[q].st = "idle" \/ call[q].dir # call[p].dir)
    => LET exports == ExportsOf(call[p].script)
           first == IF exports.default = "function" THEN "default"
                    ELSE IF exports.step1 = "function" THEN "step1"
                    ELSE "none"
       IN /\ call[p].child.entry = first
          /\ first = "none" => (call[p].child.code # 0 /\ ~call[p].child.returned)

====
